---- MODULE Spec2Model ----
(***************************************************************************)
(* Model of pgsu (src/pgsu/__init__.py): one PGSU session object, its      *)
(* connection-mode resolution (determine_setup / _no_setup_detected /      *)
(* prompt_db_info) and its command dispatch (execute).                     *)
(*                                                                         *)
(* A Python dict is a function whose domain is the set of keys present.    *)
(* Python's None is the string "None"; port numbers are written as         *)
(* strings so that every dict value has one type.                          *)
(* The outcome of every call into psycopg2 or subprocess is an input of    *)
(* the step that makes the call: the cluster and the operating system may  *)
(* answer differently each time.                                           *)
(***************************************************************************)
EXTENDS Naturals, Sequences, FiniteSets, TLC

VARIABLES
    interactive,          \* self.interactive
    quiet,                \* self.quiet
    connection_mode,      \* self.connection_mode
    setup_fail_callback,  \* self.setup_fail_callback
    setup_fail_counter,   \* self.setup_fail_counter
    dsn,                  \* self.dsn
    osuser,               \* what getpass.getuser() returns in this process
    pc,                   \* position of the single thread of control
    ldsn,                 \* determine_setup's local `dsn`
    cands,                \* candidates the for loop has not yet enumerated
    dsn_new,              \* prompt_db_info's local `dsn_new`
    str_to_escape,        \* escape_for_bash's argument
    escaped,              \* escape_for_bash's result, <<>> before the call
    \* history of the most recent call of determine_setup or execute
    call_dsn,             \* self.dsn when the call began
    call_mode,            \* self.connection_mode when the call began
    cb_dsn,               \* what the call's callback returned, if invoked
    cb_arg,               \* the arguments the call's callback got
    run_dsn,              \* self.dsn when the call's latest probe run began
    run_mode,             \* self.connection_mode at that time
    probes,               \* the probes of that run, in order
    runs,                 \* probe runs the call has begun
    cb_calls,             \* callback invocations the call has made
    result,               \* how the call of determine_setup ended
    last_exec             \* what the call of execute did

vars == <<interactive, quiet, connection_mode, setup_fail_callback,
          setup_fail_counter, dsn, osuser, pc, ldsn, cands, dsn_new,
          str_to_escape, escaped, call_dsn, call_mode, cb_dsn, cb_arg,
          run_dsn, run_mode, probes, runs, cb_calls, result, last_exec>>

session == <<interactive, quiet, connection_mode, setup_fail_callback,
             setup_fail_counter, dsn, osuser>>

history == <<call_dsn, call_mode, run_dsn, run_mode, probes, runs, cb_calls,
             cb_arg, result, last_exec>>

pure == <<str_to_escape, escaped>>

locals == <<ldsn, cands, dsn_new>>

----------------------------------------------------------------------------
(* Bounds of the model *)

\* determine_setup is not called again once the counter has reached this
MaxFailCounter == 2

\* the largest result set a command of execute produces
MaxTuples == 1

\* the longest string given to escape_for_bash
MaxStrLen == 4

----------------------------------------------------------------------------
(* Python values and dicts *)

None == "None"

EmptyDict == [k \in {} |-> None]

\* dict.get(key): None when the key is absent
Get(d, k) == IF k \in DOMAIN d THEN d[k] ELSE None

\* dict.update(other) on a copy: keys of `other` win
Update(d, e) ==
    [k \in DOMAIN d \cup DOMAIN e |-> IF k \in DOMAIN e THEN e[k] ELSE d[k]]

\* d[key] = value
SetItem(d, k, v) == [x \in DOMAIN d \cup {k} |-> IF x = k THEN v ELSE d[x]]

DEFAULT_DSN ==
    [host |-> "localhost", port |-> "5432", user |-> "postgres",
     password |-> None, database |-> "template1"]

PostgresConnectionMode == {"DISCONNECTED", "PSYCOPG", "PSQL"}

setup_max_tries == 1

----------------------------------------------------------------------------
(* Inputs *)

\* the `dsn` argument of the constructor (None: no argument)
CallerDsns ==
    { EmptyDict,
      [user |-> None],
      [user |-> "alice"],
      [port |-> "1234"],
      [host |-> None, user |-> "alice"],
      [host |-> "db.example.com", password |-> "pw"] }

OsUsers == {"alice", "postgres"}

Callbacks == {"None", "prompt_db_info", "custom"}

\* what a caller-installed callback may return
CustomCallbackDsns ==
    { DEFAULT_DSN,
      [host |-> "db.example.com", port |-> "1234", database |-> "template1"] }

\* what the operator may type at the prompts of prompt_db_info (type=str/int)
PromptDsns ==
    [host : {"localhost", "db.example.com"}, port : {"5432"},
     user : {"postgres", "alice"}, database : {"template1"}]

\* the keyword arguments of execute
ExecKwargs ==
    { EmptyDict, [user |-> "alice"], [host |-> "db.example.com"] }

\* how subprocess.check_output may end: a clean exit, a nonzero exit
\* status, or a failure to start the program
SubprocessOutcomes == {"ok", "CalledProcessError", "OSError"}

\* how the strategy of an execute call may end: normally, with the
\* statement failing (psycopg2.Error raised by cursor.execute, nonzero exit
\* of psql), or without getting started (psycopg2.connect raises, sudo
\* cannot be launched)
ExecOutcomes == {"ok", "error", "launch_error"}

\* what the cluster answers to the command of an execute call: no result
\* set (CREATE DATABASE ...), or a result set of some tuples
Replies ==
    {[result_set |-> FALSE, tuples |-> 0]}
        \cup {[result_set |-> TRUE, tuples |-> n] : n \in 0..MaxTuples}

NoReply == [result_set |-> FALSE, tuples |-> 0]

\* a value execute returns: None, or a list
NoneValue == [none |-> TRUE, rows |-> <<>>]

ListValue(rows) == [none |-> FALSE, rows |-> rows]

\* the arguments of setup_fail_callback(self.interactive, self.dsn)
CallbackArgs(p_interactive, p_dsn) ==
    [interactive |-> p_interactive, dsn |-> p_dsn]

NoArgs == [interactive |-> FALSE, dsn |-> EmptyDict]

NoExec == [mode |-> "none", kwargs |-> EmptyDict, kw |-> EmptyDict,
           reply |-> NoReply, strategies |-> <<>>, outcome |-> "none",
           value |-> NoneValue, opened |-> 0, closed |-> 0]

----------------------------------------------------------------------------
(* The external calls *)

\* a psql command line that names every host it is given
HostOptionKeepLocalhost(host) ==
    IF host # None /\ host # "" THEN host ELSE None

\* _execute_psql: if host and host != 'localhost': option_str += ' -h host'.
\* The value is the argument of -h, None when the flag is left out.
HostOption(host) ==
    IF host # None /\ host # "" /\ host # "localhost" THEN host ELSE None

\* _execute_psql: the command line built from the keyword arguments it gets.
\* `user`, `quiet` and `interactive` are named parameters, so Python binds
\* them and they are not in **kwargs; the later kwargs.pop('user',
\* 'postgres') therefore never finds a 'user' key.
PsqlCommandLine(kw) ==
    LET p_interactive == IF "interactive" \in DOMAIN kw
                         THEN kw["interactive"] ELSE FALSE
        kwargs == [k \in DOMAIN kw \ {"user", "quiet", "interactive"}
                     |-> kw[k]]
        database == Get(kwargs, "database")
        host == IF "host" \in DOMAIN kwargs THEN kwargs["host"]
                ELSE "localhost"
        port == Get(kwargs, "port")
        user == IF "user" \in DOMAIN kwargs THEN kwargs["user"]
                ELSE "postgres"
    IN  [sudo_n |-> ~p_interactive,
         su_user |-> user,
         d |-> IF database # None /\ database # "" THEN database ELSE None,
         h |-> HostOption(host),
         p |-> IF port # None /\ port # "" THEN port ELSE None]

\* _execute_psyco: the keyword arguments psycopg2.connect gets
PsycoConnectArgs(kw) ==
    IF Get(kw, "host") = None THEN SetItem(kw, "host", "localhost") ELSE kw

NoCmd == [sudo_n |-> FALSE, su_user |-> None, d |-> None, h |-> None,
          p |-> None]

Probe(kind, kw, cmd, outcome) ==
    [kind |-> kind, kw |-> kw, cmd |-> cmd, outcome |-> outcome]

----------------------------------------------------------------------------
(* The session *)

Init ==
    /\ interactive \in BOOLEAN
    /\ quiet \in BOOLEAN
    /\ connection_mode = "DISCONNECTED"
    /\ setup_fail_callback = IF interactive THEN "prompt_db_info" ELSE "None"
    /\ setup_fail_counter = 0
    /\ \E arg \in CallerDsns : dsn = Update(DEFAULT_DSN, arg)
    /\ osuser \in OsUsers
    /\ \E determine \in BOOLEAN : pc = IF determine THEN "enter" ELSE "idle"
    /\ ldsn = EmptyDict
    /\ cands = {}
    /\ dsn_new = EmptyDict
    /\ str_to_escape = <<>>
    /\ escaped = <<>>
    /\ call_dsn = dsn
    /\ call_mode = "DISCONNECTED"
    /\ cb_dsn = EmptyDict
    /\ cb_arg = NoArgs
    /\ run_dsn = EmptyDict
    /\ run_mode = "DISCONNECTED"
    /\ probes = <<>>
    /\ runs = 0
    /\ cb_calls = 0
    /\ result = IF pc = "enter" THEN "running" ELSE "none"
    /\ last_exec = NoExec

\* a call of determine_setup by the owner of the session
DetermineSetup ==
    /\ pc = "idle"
    /\ setup_fail_counter < MaxFailCounter
    /\ pc' = "enter"
    /\ call_dsn' = dsn
    /\ call_mode' = connection_mode
    /\ cb_dsn' = EmptyDict
    /\ cb_arg' = NoArgs
    /\ run_dsn' = EmptyDict
    /\ run_mode' = connection_mode
    /\ probes' = <<>>
    /\ runs' = 0
    /\ cb_calls' = 0
    /\ result' = "running"
    /\ last_exec' = NoExec
    /\ UNCHANGED <<session, pure, locals>>

\* the loop without the system user
CandidatesNoOsUser(d, os_user) == {Get(d, "user"), None}

\* set([dsn.get('user'), None, getpass.getuser()])
Candidates(d, os_user) == {Get(d, "user"), None, os_user}

\* determine_setup, up to the head of the for loop
BeginRun ==
    /\ pc = "enter"
    /\ ldsn' = dsn
    /\ cands' = Candidates(dsn, osuser)
    /\ run_dsn' = dsn
    /\ run_mode' = connection_mode
    /\ probes' = <<>>
    /\ runs' = runs + 1
    /\ pc' = "direct"
    /\ UNCHANGED <<session, pure, dsn_new, call_dsn, call_mode, cb_calls,
                   cb_dsn, cb_arg, result, last_exec>>

\* the mode is set, the probed descriptor is not stored
CommitModeOnly(d, mode) == [dsn |-> dsn, connection_mode |-> mode]

\* the probed descriptor is stored, the mode is not set
CommitDsnOnly(d, mode) == [dsn |-> d, connection_mode |-> connection_mode]

\* self.dsn = dsn; self.connection_mode = ...
Commit(d, mode) == [dsn |-> d, connection_mode |-> mode]

\* the loop works on self.dsn itself, not on a copy
SelfDsnAliased(d) == d

\* dsn = self.dsn.copy(): the loop's dsn['user'] = pg_user does not reach
\* self.dsn
SelfDsnAfterProbe(d) == dsn

\* one iteration of the for loop; a set enumerates in no specified order
TryConnect(pg_user, ok) ==
    /\ pc = "direct"
    /\ pg_user \in cands
    /\ LET d == SetItem(ldsn, "user", pg_user)
       IN  /\ probes' = Append(probes,
                Probe("psycopg", d, NoCmd, IF ok THEN "ok" ELSE "Exception"))
           /\ IF ok
              THEN /\ dsn' = Commit(d, "PSYCOPG").dsn
                   /\ connection_mode' = Commit(d, "PSYCOPG").connection_mode
                   /\ result' = "True"
                   /\ pc' = "idle"
                   /\ ldsn' = EmptyDict
                   /\ cands' = {}
              ELSE /\ ldsn' = d
                   /\ cands' = cands \ {pg_user}
                   /\ pc' = IF cands' = {} THEN "sudo" ELSE "direct"
                   /\ dsn' = SelfDsnAfterProbe(d)
                   /\ UNCHANGED <<connection_mode, result>>
    /\ UNCHANGED <<interactive, quiet, setup_fail_callback,
                   setup_fail_counter, osuser, pure, dsn_new, run_dsn,
                   run_mode, call_dsn, call_mode, runs, cb_calls, cb_dsn,
                   cb_arg, last_exec>>

\* the result of the check is ignored
SudoAvailableAlways(out) == TRUE

\* _sudo_exists: True on a clean exit of `sudo -V`, False on
\* CalledProcessError and on OSError
SudoAvailable(out) == out = "ok"

\* if _sudo_exists(): ... (elif not self.quiet: only prints)
SudoExists(out) ==
    /\ pc = "sudo"
    /\ probes' = Append(probes, Probe("sudo -V", EmptyDict, NoCmd, out))
    /\ pc' = IF SudoAvailable(out) THEN "subcmd" ELSE "failed"
    /\ UNCHANGED <<session, pure, locals, run_dsn, run_mode, call_dsn,
                   call_mode, runs, cb_calls, cb_dsn, cb_arg, result,
                   last_exec>>

\* _try_subcmd: True on a clean exit, False on CalledProcessError; no other
\* exception is caught
TrySubcmdResult(out) ==
    CASE out = "ok" -> "True"
      [] out = "CalledProcessError" -> "False"
      [] OTHER -> "raise"

\* if _try_subcmd(interactive=self.interactive, quiet=self.quiet, **dsn): ...
TrySubcmd(out) ==
    /\ pc = "subcmd"
    /\ LET kw == Update(ldsn, [interactive |-> interactive, quiet |-> quiet])
       IN  probes' = Append(probes,
                            Probe("psql", ldsn, PsqlCommandLine(kw), out))
    /\ CASE TrySubcmdResult(out) = "True" ->
              /\ dsn' = Commit(ldsn, "PSQL").dsn
              /\ connection_mode' = Commit(ldsn, "PSQL").connection_mode
              /\ result' = "True"
              /\ pc' = "idle"
              /\ ldsn' = EmptyDict
         [] TrySubcmdResult(out) = "False" ->
              /\ pc' = "failed"
              /\ UNCHANGED <<dsn, connection_mode, result, ldsn>>
         [] OTHER ->
              /\ result' = out
              /\ pc' = "idle"
              /\ ldsn' = EmptyDict
              /\ UNCHANGED <<dsn, connection_mode>>
    /\ UNCHANGED <<interactive, quiet, setup_fail_callback,
                   setup_fail_counter, osuser, pure, cands, dsn_new, run_dsn,
                   run_mode, call_dsn, call_mode, runs, cb_calls, cb_dsn,
                   cb_arg, last_exec>>

\* the callback is invoked whenever it is registered
CallbackAllowedAlways(callback, counter) == callback # "None"

\* if self.setup_fail_callback and
\*    self.setup_fail_counter <= self.setup_max_tries
CallbackAllowed(callback, counter) ==
    callback # "None" /\ counter <= setup_max_tries

\* a failed resolution marks the session disconnected
NoSetupDetectedReset ==
    /\ pc = "failed"
    /\ setup_fail_counter' = setup_fail_counter + 1
    /\ IF CallbackAllowed(setup_fail_callback, setup_fail_counter')
       THEN /\ pc' = "callback"
            /\ UNCHANGED <<result, ldsn, connection_mode>>
       ELSE /\ result' = "False"
            /\ pc' = "idle"
            /\ ldsn' = EmptyDict
            /\ connection_mode' = "DISCONNECTED"
    /\ UNCHANGED <<interactive, quiet, setup_fail_callback, dsn, osuser,
                   pure, cands, dsn_new, run_dsn, run_mode, call_dsn,
                   call_mode, probes, runs, cb_calls, cb_dsn, cb_arg,
                   last_exec>>

\* self.setup_fail_counter += 1; return self._no_setup_detected()
NoSetupDetected ==
    /\ pc = "failed"
    /\ setup_fail_counter' = setup_fail_counter + 1
    /\ IF CallbackAllowed(setup_fail_callback, setup_fail_counter')
       THEN /\ pc' = "callback"
            /\ UNCHANGED <<result, ldsn>>
       ELSE /\ result' = "False"
            /\ pc' = "idle"
            /\ ldsn' = EmptyDict
    /\ UNCHANGED <<interactive, quiet, connection_mode, setup_fail_callback,
                   dsn, osuser, pure, cands, dsn_new, run_dsn, run_mode,
                   call_dsn, call_mode, probes, runs, cb_calls, cb_dsn,
                   cb_arg, last_exec>>

\* the callback's result is dropped
AfterCallbackIgnored(returned) == dsn

\* self.dsn = self.setup_fail_callback(self.interactive, self.dsn)
AfterCallback(returned) == returned

\* self.dsn = self.setup_fail_callback(self.interactive, self.dsn), the
\* callback being one the caller installed; then self.determine_setup()
CustomCallback(d) ==
    /\ pc = "callback"
    /\ setup_fail_callback = "custom"
    /\ cb_calls' = cb_calls + 1
    /\ cb_dsn' = d
    /\ cb_arg' = CallbackArgs(interactive, dsn)
    /\ dsn' = AfterCallback(d)
    /\ pc' = "enter"
    /\ UNCHANGED <<interactive, quiet, connection_mode, setup_fail_callback,
                   setup_fail_counter, osuser, pure, locals, run_dsn,
                   run_mode, call_dsn, call_mode, probes, runs, result,
                   last_exec>>

\* the same with prompt_db_info, up to its while loop
PromptDbInfo ==
    /\ pc = "callback"
    /\ setup_fail_callback = "prompt_db_info"
    /\ cb_calls' = cb_calls + 1
    /\ cb_arg' = CallbackArgs(interactive, dsn)
    /\ IF ~interactive
       THEN /\ cb_dsn' = DEFAULT_DSN
            /\ dsn' = AfterCallback(DEFAULT_DSN)
            /\ pc' = "enter"
       ELSE /\ pc' = "prompt"
            /\ UNCHANGED <<dsn, cb_dsn>>
    /\ UNCHANGED <<interactive, quiet, connection_mode, setup_fail_callback,
                   setup_fail_counter, osuser, pure, locals, run_dsn,
                   run_mode, call_dsn, call_mode, probes, runs, result,
                   last_exec>>

\* prompt_db_info: one pass of the while loop, up to the probe of what the
\* operator typed; a successful probe ends the loop and the callback
PromptProbe(typed, ok) ==
    /\ pc = "prompt"
    /\ IF ok
       THEN /\ cb_dsn' = typed
            /\ dsn' = AfterCallback(typed)
            /\ dsn_new' = EmptyDict
            /\ pc' = "enter"
       ELSE /\ dsn_new' = typed
            /\ pc' = "password"
            /\ UNCHANGED <<dsn, cb_dsn>>
    /\ UNCHANGED <<interactive, quiet, connection_mode, setup_fail_callback,
                   setup_fail_counter, osuser, pure, ldsn, cands, history>>

\* prompt_db_info: the password prompt after a failed probe; the next pass
\* starts from dsn_new = {}
PromptPassword(typed) ==
    /\ pc = "password"
    /\ dsn_new' = IF typed = "" THEN dsn_new
                  ELSE SetItem(dsn_new, "password", typed)
    /\ pc' = "prompt"
    /\ UNCHANGED <<session, pure, ldsn, cands, cb_dsn, history>>

\* is_connected
is_connected == connection_mode \in {"PSYCOPG", "PSQL"}

\* set_setup_fail_callback
SetSetupFailCallback(callback) ==
    /\ pc = "idle"
    /\ setup_fail_callback' = callback
    /\ UNCHANGED <<interactive, quiet, connection_mode, setup_fail_counter,
                   dsn, osuser, pure, pc, locals, cb_dsn, history>>

\* _execute_psyco: output = None; if cursor.description is not None:
\* output = cursor.fetchall()
PsycoOutput(reply) ==
    IF reply.result_set
    THEN ListValue([i \in 1..reply.tuples |-> "tuple"])
    ELSE NoneValue

\* _execute_psyco: one connection per call; conn.close() follows the with
\* block, which in psycopg2 ends the transaction and leaves the connection
\* open, so an exception raised inside the block skips the close
PsycoRun(kw_copy, out, reply) ==
    LET args == PsycoConnectArgs(kw_copy)
    IN  CASE out = "ok" ->
               [strategies |-> <<Probe("psycopg", args, NoCmd, "ok")>>,
                outcome |-> "returned", value |-> PsycoOutput(reply),
                opened |-> 1, closed |-> 1]
          [] out = "error" ->
               [strategies |-> <<Probe("psycopg", args, NoCmd, "Error")>>,
                outcome |-> "Error", value |-> NoneValue,
                opened |-> 1, closed |-> 0]
          [] OTHER ->
               [strategies |-> <<Probe("psycopg", args, NoCmd, "Error")>>,
                outcome |-> "Error", value |-> NoneValue,
                opened |-> 0, closed |-> 0]

\* what `psql -tc` prints, as lines: a result set as one padded line per
\* tuple and a closing empty line, anything else as its command tag
PsqlStdout(reply) ==
    IF reply.result_set
    THEN [i \in 1..(reply.tuples + 1) |->
            IF i <= reply.tuples THEN " tuple" ELSE ""]
    ELSE <<"CREATE DATABASE">>

Blank(line) == line \in {"", " "}

RECURSIVE DropBlankHead(_)
DropBlankHead(lines) ==
    IF lines # <<>> /\ Blank(Head(lines))
    THEN DropBlankHead(Tail(lines))
    ELSE lines

RECURSIVE DropBlankTail(_)
DropBlankTail(lines) ==
    IF lines # <<>> /\ Blank(lines[Len(lines)])
    THEN DropBlankTail(SubSeq(lines, 1, Len(lines) - 1))
    ELSE lines

LStrip(line) == IF line = " tuple" THEN "tuple" ELSE line

\* result.decode('utf-8').strip().split('\n'): white space goes from both
\* ends of the output, and nothing but white space splits into ['']
StripSplit(lines) ==
    LET core == DropBlankTail(DropBlankHead(lines))
    IN  IF core = <<>> THEN <<"">>
        ELSE <<LStrip(Head(core))>> \o Tail(core)

NonEmptyLine(line) == line # ""

\* _execute_psql: result = [i for i in result if i]
PsqlResult(lines) == ListValue(SelectSeq(StripSplit(lines), NonEmptyLine))

\* _execute_psql: subprocess.check_output(sudo_su_psql, **kwargs)
PsqlRun(kw_copy, out, reply) ==
    LET cmd == PsqlCommandLine(kw_copy)
    IN  CASE out = "ok" ->
               [strategies |-> <<Probe("psql", kw_copy, cmd, "ok")>>,
                outcome |-> "returned",
                value |-> PsqlResult(PsqlStdout(reply)),
                opened |-> 0, closed |-> 0]
          [] out = "error" ->
               [strategies |->
                    <<Probe("psql", kw_copy, cmd, "CalledProcessError")>>,
                outcome |-> "CalledProcessError", value |-> NoneValue,
                opened |-> 0, closed |-> 0]
          [] OTHER ->
               [strategies |-> <<Probe("psql", kw_copy, cmd, "OSError")>>,
                outcome |-> "OSError", value |-> NoneValue,
                opened |-> 0, closed |-> 0]

\* raise ValueError('Could not connect to postgres.')
NoRun(how) ==
    [strategies |-> <<>>, outcome |-> how, value |-> NoneValue,
     opened |-> 0, closed |-> 0]

\* the history record of a call of execute
ExecHistory(mode, kwargs, kw_copy, reply, run) ==
    [mode |-> mode, kwargs |-> kwargs, kw |-> kw_copy,
     reply |-> IF run.outcome = "returned" /\ run.strategies # <<>>
               THEN reply ELSE NoReply,
     strategies |-> run.strategies, outcome |-> run.outcome,
     value |-> run.value, opened |-> run.opened, closed |-> run.closed]

\* execute without its final raise: a disconnected session returns None
ExecRecordSilent(mode, kwargs, kw_copy, out, reply) ==
    ExecHistory(mode, kwargs, kw_copy, reply,
        CASE mode = "PSYCOPG" -> PsycoRun(kw_copy, out, reply)
          [] mode = "PSQL" -> PsqlRun(kw_copy, out, reply)
          [] OTHER -> NoRun("returned"))

\* execute that tries psql when psycopg fails
ExecRecordFallback(mode, kwargs, kw_copy, out, reply) ==
    ExecHistory(mode, kwargs, kw_copy, reply,
        CASE mode = "PSYCOPG" /\ out = "ok" -> PsycoRun(kw_copy, out, reply)
          [] mode = "PSYCOPG" /\ out # "ok" ->
               [PsqlRun(kw_copy, "ok", reply) EXCEPT
                  !.strategies = PsycoRun(kw_copy, out, reply).strategies
                                   \o @]
          [] mode = "PSQL" -> PsqlRun(kw_copy, out, reply)
          [] OTHER -> NoRun("ValueError"))

\* what a call of execute does in each mode: the strategy it invokes and
\* how it ends
ExecRecord(mode, kwargs, kw_copy, out, reply) ==
    ExecHistory(mode, kwargs, kw_copy, reply,
        CASE mode = "PSYCOPG" -> PsycoRun(kw_copy, out, reply)
          [] mode = "PSQL" -> PsqlRun(kw_copy, out, reply)
          [] OTHER -> NoRun("ValueError"))

\* the committed descriptor wins over the call's keyword arguments
MergeKwargsDsnWins(d, kwargs) == Update(kwargs, d)

\* kw_copy = self.dsn.copy(); kw_copy.update(kwargs)
MergeKwargs(d, kwargs) == Update(d, kwargs)

\* execute that resolves again when its strategy fails
AfterExecuteReresolve(out) == IF out = "ok" THEN "idle" ELSE "enter"

\* where control is after execute: back with the caller, whatever happened
AfterExecute(out) == "idle"

\* execute(command, **kwargs)
Execute(kwargs, out, reply) ==
    /\ pc = "idle"
    /\ out # "ok" => reply = NoReply
    /\ last_exec' = ExecRecord(connection_mode, kwargs,
                               MergeKwargs(dsn, kwargs), out, reply)
    /\ pc' = AfterExecute(out)
    /\ call_dsn' = dsn
    /\ call_mode' = connection_mode
    /\ cb_dsn' = EmptyDict
    /\ cb_arg' = NoArgs
    /\ run_dsn' = EmptyDict
    /\ run_mode' = connection_mode
    /\ probes' = <<>>
    /\ runs' = 0
    /\ cb_calls' = 0
    /\ result' = IF pc' = "idle" THEN "none" ELSE "running"
    /\ UNCHANGED <<session, pure, locals>>

Next ==
    \/ DetermineSetup
    \/ BeginRun
    \/ \E u \in cands, ok \in BOOLEAN : TryConnect(u, ok)
    \/ \E out \in SubprocessOutcomes : SudoExists(out)
    \/ \E out \in SubprocessOutcomes : TrySubcmd(out)
    \/ NoSetupDetected
    \/ \E d \in CustomCallbackDsns : CustomCallback(d)
    \/ PromptDbInfo
    \/ \E d \in PromptDsns, ok \in BOOLEAN : PromptProbe(d, ok)
    \/ \E pw \in {"", "pw"} : PromptPassword(pw)
    \/ \E cb \in Callbacks : SetSetupFailCallback(cb)
    \/ \E kw \in ExecKwargs, out \in ExecOutcomes, reply \in Replies :
          Execute(kw, out, reply)

Spec == Init /\ [][Next]_vars

----------------------------------------------------------------------------
(* escape_for_bash, a pure function: a string is a sequence of characters *)

\* the characters of the strings to escape: a plain one and the two quotes
Chars == {"a", "'", "\""}

Strings(n) == UNION {[1..k -> Chars] : k \in 0..n}

\* the replacement of a single quote: '"'"'
EscapedQuote == <<"'", "\"", "'", "\"", "'">>

\* str.replace("'", new): each single quote becomes `new`
RECURSIVE ReplaceQuotes(_, _)
ReplaceQuotes(str, new) ==
    IF str = <<>> THEN <<>>
    ELSE (IF Head(str) = "'" THEN new ELSE <<Head(str)>>)
            \o ReplaceQuotes(Tail(str), new)

\* an escape that puts a backslash before each single quote
escape_with_backslash(str) ==
    <<"'">> \o ReplaceQuotes(str, <<"\\", "'">>) \o <<"'">>

\* escaped_quotes = str_to_escape.replace("'", """'"'"'""")
\* return "'{}'".format(escaped_quotes)
escape_for_bash(str) ==
    <<"'">> \o ReplaceQuotes(str, EscapedQuote) \o <<"'">>

\* the call escape_for_bash(str_to_escape) of a caller that holds a string
EscapeForBash ==
    /\ escaped = <<>>
    /\ escaped' = escape_for_bash(str_to_escape)
    /\ UNCHANGED <<session, pc, locals, str_to_escape, history, cb_dsn>>

\* a session constructed with PGSU(determine_setup=False), and any string
EscInit ==
    /\ interactive = FALSE
    /\ quiet = TRUE
    /\ connection_mode = "DISCONNECTED"
    /\ setup_fail_callback = "None"
    /\ setup_fail_counter = 0
    /\ dsn = DEFAULT_DSN
    /\ osuser = "postgres"
    /\ pc = "idle"
    /\ ldsn = EmptyDict
    /\ cands = {}
    /\ dsn_new = EmptyDict
    /\ str_to_escape \in Strings(MaxStrLen)
    /\ escaped = <<>>
    /\ call_dsn = dsn
    /\ call_mode = "DISCONNECTED"
    /\ cb_dsn = EmptyDict
    /\ cb_arg = NoArgs
    /\ run_dsn = EmptyDict
    /\ run_mode = "DISCONNECTED"
    /\ probes = <<>>
    /\ runs = 0
    /\ cb_calls = 0
    /\ result = "none"
    /\ last_exec = NoExec

EscNext == EscapeForBash

EscSpec == EscInit /\ [][EscNext]_vars

----------------------------------------------------------------------------
(* Vocabulary of the properties *)

Last(s) == s[Len(s)]

\* the step is a call of execute
ExecuteCall ==
    /\ pc = "idle"
    /\ last_exec'.kwargs \in ExecKwargs
    /\ \E out \in ExecOutcomes, reply \in Replies :
          Execute(last_exec'.kwargs, out, reply)

\* the call of determine_setup has returned `r` to its caller
Returned(r) == pc = "idle" /\ result = r

\* the probes before position i of the run are direct ones, all failed, one
\* for every candidate of the run's working descriptor
DirectExhaustedBefore(i) ==
    /\ \A j \in 1..(i - 1) :
         probes[j].kind = "psycopg" /\ probes[j].outcome # "ok"
    /\ {probes[j].kw["user"] : j \in 1..(i - 1)}
         = {Get(run_dsn, "user"), None, osuser}

\* the run has ended in total failure: control is in or past the failure
\* handling and the run committed nothing
TotalFailure ==
    /\ \/ pc \in {"failed", "callback", "prompt", "password", "enter"}
       \/ Returned("False")
    /\ connection_mode = run_mode
    /\ pc = "failed" => dsn = run_dsn

----------------------------------------------------------------------------
(* C1: in a probe run, a direct connection attempt that succeeds for a     *)
(* candidate user is the last probe of the run: determine_setup has        *)
(* returned True, the mode is PSYCOPG, self.dsn is the run's working       *)
(* descriptor with only `user` replaced by that candidate, and the run     *)
(* made neither the sudo check nor a psql call.                            *)
C1_DirectSuccessCommits ==
    \A i \in 1..Len(probes) :
      (probes[i].kind = "psycopg" /\ probes[i].outcome = "ok") =>
        /\ i = Len(probes)
        /\ Returned("True")
        /\ connection_mode = "PSYCOPG"
        /\ dsn = SetItem(run_dsn, "user", probes[i].kw["user"])
        /\ \A k \in DOMAIN run_dsn \ {"user"} : dsn[k] = run_dsn[k]
        /\ \A j \in 1..Len(probes) : probes[j].kind = "psycopg"

\* a direct probe succeeded for a candidate other than the descriptor's own
\* user, after an earlier candidate had failed
C1_Witness ==
    /\ Returned("True")
    /\ connection_mode = "PSYCOPG"
    /\ Len(probes) >= 2
    /\ Last(probes).outcome = "ok"
    /\ Get(dsn, "user") # Get(run_dsn, "user")
    /\ dsn["port"] = "1234"

(* C2: the sudo check and the psql probe of a run come only after every    *)
(* direct candidate was tried and failed, and the psql probe only after a  *)
(* successful sudo check; a clean psql exit makes determine_setup return   *)
(* True in mode PSQL; after a failed sudo check or a nonzero psql exit the *)
(* run has committed no mode and is in total-failure handling.             *)
C2_SubprocessProbeOrder ==
    \A i \in 1..Len(probes) :
      /\ probes[i].kind = "sudo -V" =>
           /\ DirectExhaustedBefore(i)
           /\ probes[i].outcome # "ok" => (i = Len(probes) /\ TotalFailure)
      /\ probes[i].kind = "psql" =>
           /\ i = Len(probes)
           /\ i >= 2
           /\ probes[i - 1].kind = "sudo -V"
           /\ probes[i - 1].outcome = "ok"
           /\ DirectExhaustedBefore(i - 1)
           /\ probes[i].outcome = "ok" =>
                (Returned("True") /\ connection_mode = "PSQL")
           /\ probes[i].outcome = "CalledProcessError" => TotalFailure

\* psql probed and exited cleanly after three failed direct candidates
C2_Witness ==
    /\ Returned("True")
    /\ connection_mode = "PSQL"
    /\ Len(probes) = 5
    /\ Last(probes).kind = "psql"

(* C3 (as claimed): when resolution commits mode PSQL, the descriptor used *)
(* for the psql probe and the descriptor committed to the session have     *)
(* `user` = 'postgres', whatever candidate the direct loop tried last.     *)
C3_PsqlCommitUserIsPostgres ==
    (Returned("True") /\ connection_mode = "PSQL") =>
        /\ Last(probes).kw["user"] = "postgres"
        /\ dsn["user"] = "postgres"

(* C4: while the session is disconnected, every call of execute fails with *)
(* an error: it invokes no strategy, starts no resolution, and leaves the  *)
(* mode, the descriptor and the retry counter as they were.                *)
C4_DisconnectedExecuteFails ==
    [][(ExecuteCall /\ ~is_connected) =>
          /\ last_exec'.outcome = "ValueError"
          /\ last_exec'.strategies = <<>>
          /\ pc' = "idle"
          /\ probes' = <<>>
          /\ cb_calls' = 0
          /\ UNCHANGED <<connection_mode, dsn, setup_fail_counter>>]_vars

\* resolution failed with no callback registered, then execute was called
C4_Witness ==
    /\ last_exec.outcome = "ValueError"
    /\ ~is_connected
    /\ setup_fail_callback = "None"
    /\ setup_fail_counter >= 1

(* C5: once a mode is committed, a call of execute, failing or not, with   *)
(* or without overrides, makes no probe and starts no resolution, and      *)
(* leaves the mode, the committed descriptor and the retry counter         *)
(* unchanged.                                                              *)
C5_ExecuteKeepsCommit ==
    [][(ExecuteCall /\ is_connected) =>
          /\ pc' = "idle"
          /\ probes' = <<>>
          /\ runs' = 0
          /\ cb_calls' = 0
          /\ last_exec'.mode = connection_mode
          /\ UNCHANGED <<connection_mode, dsn, setup_fail_counter,
                         setup_fail_callback>>]_vars

\* a failing execute with an override, in a committed mode
C5_Witness ==
    /\ is_connected
    /\ last_exec.mode = connection_mode
    /\ last_exec.outcome \in {"Error", "CalledProcessError"}
    /\ last_exec.kw # dsn

(* C6: a call of determine_setup begins at most setup_max_tries + 1 probe  *)
(* runs and invokes the callback at most setup_max_tries times (twice and  *)
(* once with the default), each run makes at most five probes, and the     *)
(* callback is invoked only when one is registered and the counter, after  *)
(* its increment, is at most setup_max_tries.                              *)
C6_BoundedRetry ==
    /\ runs <= setup_max_tries + 1
    /\ cb_calls <= setup_max_tries
    /\ Len(probes) <= 5
    /\ Cardinality(cands) + Len(probes) <= 3 \/ cands = {}
    /\ pc \in {"callback", "prompt", "password"} =>
         /\ setup_fail_callback # "None"
         /\ setup_fail_counter <= setup_max_tries

\* the callback's descriptor could not connect either: two runs, one
\* callback invocation, and the call returned False
C6_Witness ==
    /\ Returned("False")
    /\ runs = 2
    /\ cb_calls = 1
    /\ setup_fail_counter = 2

(* C7 (as claimed): the candidates probed in a run are the descriptor's    *)
(* user U and None, each once and none twice, and exactly one candidate    *)
(* when U is None.                                                         *)
C7_CandidatesAreUserAndNone ==
    pc = "sudo" =>
      /\ \A v \in {Get(run_dsn, "user"), None} :
           Cardinality({j \in 1..Len(probes) : probes[j].kw["user"] = v}) = 1
      /\ \A i, j \in 1..Len(probes) :
           probes[i].kw["user"] = probes[j].kw["user"] => i = j
      /\ Get(run_dsn, "user") = None => Len(probes) = 1

(* C7 (amended): the candidates of a run are U, None and the system user,  *)
(* without duplicates; no candidate is probed twice, each is probed once   *)
(* when every direct probe fails, and when U is None there are exactly two *)
(* candidates, None and the system user.                                   *)
C7_CandidatesIncludeOsUser ==
    /\ \A i, j \in 1..Len(probes) :
         (/\ probes[i].kind = "psycopg"
          /\ probes[j].kind = "psycopg"
          /\ probes[i].kw["user"] = probes[j].kw["user"]) => i = j
    /\ pc = "sudo" =>
         /\ {probes[j].kw["user"] : j \in 1..Len(probes)}
              = {Get(run_dsn, "user"), None, osuser}
         /\ Get(run_dsn, "user") = None =>
              /\ Len(probes) = 2
              /\ {probes[j].kw["user"] : j \in 1..2} = {None, osuser}

\* the direct loop is over for a descriptor whose user is None
C7_Witness ==
    /\ pc = "sudo"
    /\ "user" \in DOMAIN run_dsn
    /\ run_dsn["user"] = None
    /\ Len(probes) = 2

(* C8 (as claimed): no probe failure propagates out of determine_setup:    *)
(* whatever the direct attempts, the sudo check and the psql probe do,     *)
(* launch failures included, the call returns True or False.               *)
C8_NoProbeFailurePropagates ==
    result \in {"none", "running", "True", "False"}

(* C9: a strategy that fails during execute is the only strategy the call  *)
(* invokes, it is the committed mode's own, its failure is what the call   *)
(* ends with, and the call starts no resolution, invokes no callback and   *)
(* leaves the committed mode unchanged.                                    *)
C9_ExecuteFailurePropagates ==
    \A i \in 1..Len(last_exec.strategies) :
      last_exec.strategies[i].outcome # "ok" =>
        /\ Len(last_exec.strategies) = 1
        /\ last_exec.strategies[1].kind =
             (IF last_exec.mode = "PSYCOPG" THEN "psycopg" ELSE "psql")
        /\ last_exec.outcome = last_exec.strategies[1].outcome
        /\ pc = "idle"
        /\ result = "none"
        /\ runs = 0
        /\ cb_calls = 0
        /\ connection_mode = last_exec.mode

\* a driver error in PSYCOPG mode reached the caller
C9_Witness ==
    /\ last_exec.mode = "PSYCOPG"
    /\ last_exec.outcome = "Error"
    /\ connection_mode = "PSYCOPG"

(* C10: the mode is always one of the three, and once it is PSYCOPG or     *)
(* PSQL no step sets it back to DISCONNECTED.                              *)
C10_ModeMonotonic ==
    /\ [](connection_mode \in PostgresConnectionMode)
    /\ [][is_connected => is_connected']_vars

\* a later resolution failed on a connected session, which stays connected
C10_Witness ==
    /\ Returned("False")
    /\ is_connected
    /\ setup_fail_counter >= 1

(* C11 (as claimed): after a call of determine_setup has returned, it     *)
(* returned True exactly when the session is connected; a False result     *)
(* means the mode is DISCONNECTED.                                         *)
C11_ResultIffConnected ==
    (Returned("True") \/ Returned("False")) =>
        ((result = "True") <=> is_connected)

(* C11 (amended): a call that returned True leaves the session connected;  *)
(* a call that returned False leaves the mode as it was when the call      *)
(* began, so it is DISCONNECTED only if the session was disconnected then. *)
C11_ResultAndMode ==
    /\ Returned("True") => is_connected
    /\ Returned("False") => connection_mode = call_mode
    /\ (Returned("False") /\ call_mode = "DISCONNECTED") => ~is_connected

\* a repeated call on a session committed to PSQL returned False
C11_Witness ==
    /\ Returned("False")
    /\ call_mode = "PSQL"
    /\ connection_mode = "PSQL"

(* C12 (as claimed): when determine_setup returns False, self.dsn is what  *)
(* it was when the call began, callback or not.                            *)
C12_FalseKeepsDsn ==
    Returned("False") => dsn = call_dsn

(* C12 (amended): when determine_setup returns False, self.dsn holds no    *)
(* candidate-user substitution: it is what it was when the call began if   *)
(* the call invoked no callback, and otherwise it is the descriptor the    *)
(* callback returned, with which the last run began.                       *)
C12_FalseKeepsDsnOrCallbackResult ==
    Returned("False") =>
        /\ dsn = run_dsn
        /\ cb_calls = 0 => dsn = call_dsn
        /\ cb_calls > 0 => dsn = cb_dsn

\* the callback's descriptor could not connect and stays in self.dsn
C12_Witness ==
    /\ Returned("False")
    /\ cb_calls = 1
    /\ dsn = cb_dsn
    /\ dsn # call_dsn
    /\ Len(probes) >= 3


\* C13: in the psycopg strategy of execute, every connection the call
\* opened is closed again when the call ends, whether it returns or the
\* statement raises.  The code closes the connection after the with block
\* only, so a raising statement leaves it open.
C13_ConnectionReleased ==
    last_exec.mode = "PSYCOPG" => last_exec.closed = last_exec.opened

\* the strategies a call of execute invoked are all of this kind, and there
\* is one
DispatchedTo(rec, kind) ==
    /\ rec.strategies # <<>>
    /\ \A i \in 1..Len(rec.strategies) : rec.strategies[i].kind = kind

\* C14: every call of execute hands its strategy the committed descriptor
\* with the call's keyword arguments applied on top (a key of the keyword
\* arguments takes their value, every other key keeps the committed value),
\* invokes the psycopg strategy exactly in PSYCOPG mode and the psql strategy
\* exactly in PSQL mode, and leaves the session's descriptor as it was when
\* the call began.
C14_ExecuteMergesAndDispatches ==
    last_exec.mode # "none" =>
        /\ dsn = call_dsn
        /\ DOMAIN last_exec.kw = DOMAIN call_dsn \cup DOMAIN last_exec.kwargs
        /\ \A k \in DOMAIN last_exec.kwargs :
              last_exec.kw[k] = last_exec.kwargs[k]
        /\ \A k \in DOMAIN call_dsn \ DOMAIN last_exec.kwargs :
              last_exec.kw[k] = call_dsn[k]
        /\ DispatchedTo(last_exec, "psycopg") <=> call_mode = "PSYCOPG"
        /\ DispatchedTo(last_exec, "psql") <=> call_mode = "PSQL"
        /\ \A i \in 1..Len(last_exec.strategies) :
              last_exec.strategies[i].kind = "psql" =>
                  last_exec.strategies[i].kw = last_exec.kw

C14_Witness ==
    /\ last_exec.mode = "PSQL"
    /\ connection_mode = "PSQL"
    /\ last_exec.kwargs = [user |-> "alice"]
    /\ dsn["user"] = "postgres"
    /\ last_exec.kw["user"] = "alice"
    /\ last_exec.kw["port"] = dsn["port"]
    /\ DispatchedTo(last_exec, "psql")

\* the latest call of execute ran its strategy and returned a value
ExecReturned == last_exec.outcome = "returned" /\ last_exec.strategies # <<>>

\* C15: in every committed mode, execute of a command with a result set
\* returns a list with one entry per result tuple, and execute of a command
\* without a result set returns None.  The psql strategy returns the
\* non-empty lines psql printed, so a command without a result set gives the
\* list holding its command tag.
C15_RowsOrNone ==
    ExecReturned =>
        IF last_exec.reply.result_set
        THEN /\ ~last_exec.value.none
             /\ Len(last_exec.value.rows) = last_exec.reply.tuples
        ELSE last_exec.value.none

\* the reverse of the quote substitution, read from the left: each '"'"'
\* stands for a single quote, any other character for itself
RECURSIVE UnescapeQuotes(_)
UnescapeQuotes(str) ==
    IF str = <<>> THEN <<>>
    ELSE IF Len(str) >= 5 /\ SubSeq(str, 1, 5) = EscapedQuote
         THEN <<"'">> \o UnescapeQuotes(SubSeq(str, 6, Len(str)))
         ELSE <<Head(str)>> \o UnescapeQuotes(Tail(str))

\* strip the outer quotes, then reverse the substitution
Unescape(str) == UnescapeQuotes(SubSeq(str, 2, Len(str) - 1))

QuoteCount(str) == Cardinality({i \in 1..Len(str) : str[i] = "'"})

\* C16: escape_for_bash(S) is S between two single quotes with each single
\* quote of S replaced by '"'"', and stripping the outer quotes and
\* replacing each '"'"' by a single quote gives S back; O'Brien escapes to
\* 'O'"'"'Brien'.
C16_EscapeRoundTrip ==
    /\ escaped # <<>> =>
          /\ Len(escaped) = Len(str_to_escape) + 2
                              + 4 * QuoteCount(str_to_escape)
          /\ Head(escaped) = "'"
          /\ escaped[Len(escaped)] = "'"
          /\ Unescape(escaped) = str_to_escape
    /\ escape_for_bash(<<"O", "'", "B", "r", "i", "e", "n">>)
          = <<"'", "O", "'", "\"", "'", "\"", "'", "B", "r", "i", "e", "n",
              "'">>

C16_Witness ==
    /\ str_to_escape = <<"a", "'", "\"", "'">>
    /\ escaped = <<"'", "a">> \o EscapedQuote \o <<"\"">> \o EscapedQuote
                    \o <<"'">>

\* every psql command line the session built: in the probe runs of the
\* latest determine_setup and in the latest execute
PsqlInvocations ==
    {probes[i] : i \in {j \in 1..Len(probes) : probes[j].kind = "psql"}}
        \cup {last_exec.strategies[i] :
                i \in {j \in 1..Len(last_exec.strategies) :
                         last_exec.strategies[j].kind = "psql"}}

\* C17: a psql command line has no -h flag when the host of the descriptor
\* it is built from is unset or 'localhost', and has -h with exactly that
\* host for any other host.
C17_HostFlag ==
    \A inv \in PsqlInvocations :
        IF Get(inv.kw, "host") \in {None, "localhost"}
        THEN inv.cmd.h = None
        ELSE inv.cmd.h = inv.kw["host"]

C17_Witness ==
    /\ last_exec.mode = "PSQL"
    /\ Get(call_dsn, "host") = "localhost"
    /\ last_exec.kwargs = [host |-> "db.example.com"]
    /\ \E inv \in PsqlInvocations : inv.cmd.h = "db.example.com"

\* C18: every sudo command line of the session, the psql probe of
\* determine_setup and the psql strategy of execute, has -n exactly when the
\* session is not interactive.  execute does not hand `interactive` to
\* _execute_psql, whose default is False, so in PSQL mode execute runs
\* sudo -n in an interactive session too.
C18_SudoFlagFollowsSession ==
    \A inv \in PsqlInvocations : inv.cmd.sudo_n = ~interactive

\* what holds of the second probe run of a determine_setup call
SecondRunFollowsCallback ==
    /\ cb_calls <= setup_max_tries
    /\ cb_calls = 1 => cb_arg = CallbackArgs(interactive, call_dsn)
    /\ runs = 2 => (cb_calls = 1 /\ run_dsn = cb_dsn)
    /\ (runs = 2 /\ probes # <<>>) =>
          /\ probes[1].kind = "psycopg"
          /\ \E u \in Candidates(cb_dsn, osuser) :
                probes[1].kw = SetItem(cb_dsn, "user", u)
    /\ (runs = 2 /\ probes # <<>> /\ Last(probes).kind = "psycopg"
          /\ Last(probes).outcome = "ok") =>
          /\ Returned("True")
          /\ connection_mode = "PSYCOPG"
          /\ \A k \in {"host", "port", "database"} :
                Get(dsn, k) = Get(cb_dsn, k)

\* the total failure of the first run goes to the callback when one is
\* registered and the counter, once incremented, is within the budget
FirstFailureInvokesCallback ==
    (pc = "failed" /\ runs = 1 /\ setup_fail_callback # "None"
        /\ setup_fail_counter + 1 <= setup_max_tries)
      => (pc' = "callback" /\ cb_calls' = cb_calls /\ dsn' = dsn)

\* C19: when the first probe run of a determine_setup call fails
\* completely, a callback is registered and the retry budget is not used
\* up, the callback is invoked, once, with the session's interactive flag
\* and the descriptor the session has then; what it returns becomes the
\* session's descriptor and the working descriptor of a second run, which
\* starts again with a direct attempt for a candidate user; a direct
\* attempt that succeeds in the second run makes the call return True with
\* the session in PSYCOPG mode and the host, port and database the callback
\* returned.
C19_CallbackRerun ==
    /\ []SecondRunFollowsCallback
    /\ [][FirstFailureInvokesCallback]_vars

C19_Witness ==
    /\ Returned("True")
    /\ runs = 2
    /\ cb_calls = 1
    /\ connection_mode = "PSYCOPG"
    /\ cb_arg = CallbackArgs(interactive, call_dsn)
    /\ Get(call_dsn, "port") = "5432"
    /\ Get(cb_dsn, "port") = "1234"
    /\ Get(dsn, "port") = "1234"
    /\ Get(dsn, "host") = "db.example.com"

\* C20: the psycopg strategy of execute connects with exactly the
\* descriptor execute merged: what is unset there, host in particular,
\* reaches psycopg2.connect unset, so a call without keyword arguments
\* connects with the parameters the committing direct probe used.
\* _execute_psyco puts host='localhost' in place of an unset host, which
\* the probe does not do.
C20_ConnectsWithMergedDescriptor ==
    \A i \in 1..Len(last_exec.strategies) :
        last_exec.strategies[i].kind = "psycopg" =>
            /\ last_exec.strategies[i].kw = last_exec.kw
            /\ last_exec.kwargs = EmptyDict =>
                  last_exec.strategies[i].kw = dsn

\* C21: the account `su` switches to in a psql command line is the `user`
\* of the descriptor the command line is built from, an override given to
\* execute included, and 'postgres' only when that descriptor has no user.
\* _execute_psql binds `user` as a named parameter and then reads the
\* account from the remaining keyword arguments, where no `user` is left, so
\* the account is 'postgres' whatever user was passed.
C21_SuUserIsDescriptorUser ==
    \A inv \in PsqlInvocations :
        inv.cmd.su_user = IF Get(inv.kw, "user") = None
                          THEN "postgres"
                          ELSE inv.kw["user"]

\* C22: in prompt_db_info, a non-empty password typed after a failed probe
\* is part of the descriptor the next pass of the loop probes, so that a
\* pass whose probe succeeds returns a descriptor with that password.  Every
\* pass starts from dsn_new = {}, which drops the password before any probe
\* uses it.
C22_TypedPasswordIsProbed ==
    [][(pc = "prompt" /\ "password" \in DOMAIN dsn_new) =>
          /\ pc' = "enter" =>
                Get(cb_dsn', "password") = dsn_new["password"]
          /\ pc' = "password" =>
                Get(dsn_new', "password") = dsn_new["password"]
      ]_vars

====
